---- MODULE Spec2Model ----
(***************************************************************************)
(* Model of the chunking, indexing and retrieval pipeline of the           *)
(* nutrition RAG system.                                                   *)
(*                                                                         *)
(* Strings are sequences of one-character strings, so that split, strip    *)
(* and len are computed as Python computes them.                           *)
(*                                                                         *)
(* SpecChunk runs ProcessController.process_simpler_splitter step by step  *)
(* on inputs drawn from bounded sets.                                      *)
(***************************************************************************)
EXTENDS Integers, Sequences, FiniteSets, TLC

\* ------------------------------------------------------------------ bounds
MaxTextLen == 5
MaxPartLen == 2
MaxChunkSize == 4
MaxChunkId == 5
MaxRows == 4
MaxRecords == 2
page_size == 2
index_threshold == 3

MaxTurns == 3

\* ------------------------------------------------------------ text helpers
Alphabet == {"a", " ", "\n", "|"}

Whitespace == {" ", "\n"}

RECURSIVE StrsOfLen(_)
StrsOfLen(n) ==
    IF n = 0 THEN {<<>>}
    ELSE {Append(s, c) : s \in StrsOfLen(n - 1), c \in Alphabet}

StrsUpTo(n) == UNION {StrsOfLen(k) : k \in 0..n}

\* str.strip() with no argument: drops leading and trailing whitespace
RECURSIVE LStrip(_)
LStrip(s) ==
    IF s # <<>> /\ Head(s) \in Whitespace THEN LStrip(Tail(s)) ELSE s

RECURSIVE RStrip(_)
RStrip(s) ==
    IF s # <<>> /\ s[Len(s)] \in Whitespace
    THEN RStrip(SubSeq(s, 1, Len(s) - 1))
    ELSE s

Strip(s) == LStrip(RStrip(s))

\* " ".join(texts)
RECURSIVE JoinSpace(_)
JoinSpace(ts) ==
    IF ts = <<>> THEN <<>>
    ELSE IF Len(ts) = 1 THEN ts[1]
    ELSE ts[1] \o <<" ">> \o JoinSpace(Tail(ts))

IsPrefixAt(s, sep, i) ==
    /\ i + Len(sep) - 1 <= Len(s)
    /\ SubSeq(s, i, i + Len(sep) - 1) = sep

\* str.split(sep): cut at every leftmost non-overlapping occurrence of sep,
\* keeping empty segments
RECURSIVE SplitFrom(_, _, _, _)
SplitFrom(s, sep, i, cur) ==
    IF i > Len(s) THEN <<cur>>
    ELSE IF IsPrefixAt(s, sep, i)
         THEN <<cur>> \o SplitFrom(s, sep, i + Len(sep), <<>>)
         ELSE SplitFrom(s, sep, i + 1, Append(cur, s[i]))

Split(s, sep) == SplitFrom(s, sep, 1, <<>>)

RECURSIVE SelectStripped(_, _)
SelectStripped(segs, minLen) ==
    IF segs = <<>> THEN <<>>
    ELSE IF Len(Strip(Head(segs))) > minLen
         THEN <<Strip(Head(segs))>> \o SelectStripped(Tail(segs), minLen)
         ELSE SelectStripped(Tail(segs), minLen)

\* ----------------------------------------------------------------- chunker
Document(content) == [page_content |-> content, metadata |-> "{}"]

\* mutant of SplitLines: keeps one-character segments
SplitLinesKeepShort(ts, tag) == SelectStripped(Split(JoinSpace(ts), tag), 0)

\* lines = [doc.strip() for doc in full_text.split(tag) if len(doc.strip()) > 1]
SplitLines(ts, tag) == SelectStripped(Split(JoinSpace(ts), tag), 1)

\* mutant of ReachesChunkSize: off by one
ReachesChunkSizeOffByOne(buf, size) == Len(buf) + 1 >= size

\* if len(current_chunk) >= chunk_size
ReachesChunkSize(buf, size) == Len(buf) >= size

\* one iteration of "for line in lines" on the pair (chunks, current_chunk)
StepLine(st, line, size, tag) ==
    LET buf == st.current_chunk \o line \o tag IN
    IF ReachesChunkSize(buf, size)
    THEN [chunks |-> Append(st.chunks, Document(Strip(buf))),
          current_chunk |-> <<>>, emitted |-> TRUE]
    ELSE [chunks |-> st.chunks, current_chunk |-> buf, emitted |-> FALSE]

\* mutant of FinalGuard: skips an empty remaining buffer
FinalGuardNonEmpty(buf) == Len(buf) > 0

\* if len(current_chunk) >= 0
FinalGuard(buf) == Len(buf) >= 0

\* the statements after the loop
FinalEmit(st) ==
    IF FinalGuard(st.current_chunk)
    THEN [st EXCEPT !.chunks = Append(@, Document(Strip(st.current_chunk)))]
    ELSE st

RECURSIVE FoldLines(_, _, _, _)
FoldLines(st, ls, size, tag) ==
    IF ls = <<>> THEN st
    ELSE FoldLines(StepLine(st, Head(ls), size, tag), Tail(ls), size, tag)

EmptyBuffer == [chunks |-> <<>>, current_chunk |-> <<>>, emitted |-> FALSE]

\* the whole function, as process_file_content calls it
ProcessSimplerSplitter(ts, size, tag) ==
    FinalEmit(FoldLines(EmptyBuffer, SplitLines(ts, tag), size, tag)).chunks

\* ------------------------------------------------------------- chunk store
ProjectIds == {1, 2}

\* rows of one project, in the order the table scan yields them
RECURSIVE SelectProject(_, _)
SelectProject(rows, project_id) ==
    IF rows = <<>> THEN <<>>
    ELSE IF Head(rows).chunk_project_id = project_id
         THEN <<Head(rows)>> \o SelectProject(Tail(rows), project_id)
         ELSE SelectProject(Tail(rows), project_id)

Min(a, b) == IF a <= b THEN a ELSE b

\* The query of get_project_chunks has no ORDER BY, so each execution
\* returns the rows in the order of its scan: a sequential scan may start at
\* any row of the table and wraps around
Rotate(tbl, k) == SubSeq(tbl, k + 1, Len(tbl)) \o SubSeq(tbl, 1, k)

ScanOrders(tbl) == {Rotate(tbl, k) : k \in 0..Len(tbl)}

\* mutant of GetProjectChunks: the rows are not filtered by project
GetProjectChunksOfAnyProject(tbl, project_id, page_no) ==
    LET off == (page_no - 1) * page_size
    IN  SubSeq(tbl, off + 1, Min(off + page_size, Len(tbl)))

\* mutant of GetProjectChunks: the offset is page_no * page_size
GetProjectChunksPageFromZero(tbl, project_id, page_no) ==
    LET mine == SelectProject(tbl, project_id)
        off  == page_no * page_size
    IN  SubSeq(mine, off + 1, Min(off + page_size, Len(mine)))

\* mutant of GetProjectChunks: the offset is left out of the query
GetProjectChunksNoOffset(tbl, project_id, page_no) ==
    LET mine == SelectProject(tbl, project_id)
    IN  SubSeq(mine, 1, Min(page_size, Len(mine)))

\* select(DataChunk).where(project).offset((page_no - 1) * page_size)
\*                                 .limit(page_size)
GetProjectChunks(tbl, project_id, page_no) ==
    LET mine == SelectProject(tbl, project_id)
        off  == (page_no - 1) * page_size
    IN  SubSeq(mine, off + 1, Min(off + page_size, Len(mine)))

GetChunksCountByProjectId(tbl, project_id) ==
    Len(SelectProject(tbl, project_id))

RECURSIVE DeleteChunksByProjectId(_, _)
DeleteChunksByProjectId(tbl, project_id) ==
    IF tbl = <<>> THEN <<>>
    ELSE IF Head(tbl).chunk_project_id = project_id
         THEN DeleteChunksByProjectId(Tail(tbl), project_id)
         ELSE <<Head(tbl)>> \o DeleteChunksByProjectId(Tail(tbl), project_id)

\* DataChunk(...) for i, chunk in enumerate(file_chunks), with the ids the
\* autoincrement primary key gives on insert
DataChunks(file_chunks, project_id, asset_id, first_id) ==
    [i \in 1..Len(file_chunks) |->
        [chunk_id         |-> first_id + i - 1,
         chunk_content    |-> file_chunks[i].page_content,
         chunk_order      |-> i,
         chunk_project_id |-> project_id,
         chunk_asset_id   |-> asset_id]]

\* mutant of InsertManyChunks: the new rows take the place of the table
InsertManyChunksOnly(tbl, records) == records

\* session.add_all(batch) for every batch, one commit
InsertManyChunks(tbl, records) == tbl \o records

ChunkIds(tbl) == {tbl[i].chunk_id : i \in 1..Len(tbl)}

\* ------------------------------------------------------------ vector store
Backends == {"QDRANT", "PGVECTOR"}

default_vector_size == 768

\* str(n) of a non-negative int
Digit(d) == <<"0", "1", "2", "3", "4", "5", "6", "7", "8", "9">>[d + 1]

RECURSIVE Str(_)
Str(n) == IF n < 10 THEN <<Digit(n)>> ELSE Append(Str(n \div 10), Digit(n % 10))

CollectionPrefix == <<"C", "o", "l", "l", "e", "c", "t", "i", "o", "n", "_">>

\* mutant of FormatCollectionName: the second separator is left out
FormatCollectionNameNoSeparator(vector_size, project_id) ==
    Strip(CollectionPrefix \o Str(vector_size) \o Str(project_id))

\* f"Collection_{default_vector_size}_{project_id}".strip()
FormatCollectionName(vector_size, project_id) ==
    Strip(CollectionPrefix \o Str(vector_size) \o <<"_">> \o Str(project_id))

\* create_collection_name with the vector size the provider was built with
CreateCollectionName(project_id) ==
    FormatCollectionName(default_vector_size, project_id)

CollectionNames == {CreateCollectionName(p) : p \in ProjectIds}

\* index_builds counts the CREATE INDEX statements run on the table
NoCollection ==
    [present |-> FALSE, rows |-> <<>>, has_index |-> FALSE, index_builds |-> 0]

EmptyCollection ==
    [present |-> TRUE, rows |-> <<>>, has_index |-> FALSE, index_builds |-> 0]

Ret(store, result) == [store |-> store, result |-> result]

RowIds(rows) == {rows[i].chunk_id : i \in 1..Len(rows)}

\* zip(texts, vectors, metadata, record_ids): as long as the shortest
ZipRows(txts, vecs, ids) ==
    [i \in 1..Min(Len(txts), Min(Len(vecs), Len(ids))) |->
        [chunk_id |-> ids[i], text |-> txts[i]]]

\* --- PGVectorProvider
PgIsCollectionExisted(store, name) == store[name].present

PgDeleteCollection(store, name) ==
    Ret([store EXCEPT ![name] = NoCollection], "True")

\* mutant of PgCreateCollection: the table is dropped whatever do_reset is
PgCreateCollectionDropsFirst(store, name, do_reset) ==
    Ret([store EXCEPT ![name] = EmptyCollection], "True")

PgCreateCollection(store, name, do_reset) ==
    LET s1 == IF do_reset THEN PgDeleteCollection(store, name).store
              ELSE store
    IN  IF ~PgIsCollectionExisted(s1, name)
        THEN Ret([s1 EXCEPT ![name] = EmptyCollection], "True")
        ELSE Ret(s1, "False")

\* mutant of PgCreateVectorIndex: the index is built whatever the row count
PgCreateVectorIndexBelowThreshold(coll) ==
    IF coll.has_index THEN coll
    ELSE [coll EXCEPT !.has_index = TRUE, !.index_builds = @ + 1]

\* create_vector_index: built once, when the row count is at the threshold
PgCreateVectorIndex(coll) ==
    IF coll.has_index THEN coll
    ELSE IF Len(coll.rows) < index_threshold THEN coll
    ELSE [coll EXCEPT !.has_index = TRUE, !.index_builds = @ + 1]

\* INSERT INTO ... VALUES ...: the primary key is the bigserial id, so rows
\* with a chunk_id already present are added again
PgInsertRows(rows, new) == rows \o new

\* vectors is [ok, vecs]: ok = FALSE stands for None; stored_ids are the
\* chunk ids the foreign key chunk_id -> chunks(chunk_id) accepts
PgInsertMany(store, name, txts, vectors, ids, stored_ids) ==
    IF ~PgIsCollectionExisted(store, name) THEN Ret(store, "False")
    ELSE IF ~vectors.ok THEN Ret(store, "raise")
    ELSE IF Len(vectors.vecs) # Len(ids) THEN Ret(store, "False")
    ELSE LET new == ZipRows(txts, vectors.vecs, ids) IN
         IF ~(RowIds(new) \subseteq stored_ids) THEN Ret(store, "raise")
         ELSE Ret([store EXCEPT ![name] =
                      PgCreateVectorIndex(
                          [@ EXCEPT !.rows = PgInsertRows(@, new)])],
                  "True")

\* RetrievedDocument(text, score) for every row of a result set; the rows
\* hold equal vectors, so the rank order is the order of insertion
RetrievedDocuments(rows) == [i \in 1..Len(rows) |-> rows[i].text]

\* mutant of Take: the LIMIT clause is left out
TakeAll(rows, limit) == rows

\* ORDER BY score DESC LIMIT limit
Take(rows, limit) == SubSeq(rows, 1, Min(limit, Len(rows)))

Found(result, docs) == [result |-> result, docs |-> docs]

\* search_by_vector: False for a missing collection, else the list of the
\* first limit rows ranked, which may be empty
PgSearchByVector(store, name, limit) ==
    IF ~PgIsCollectionExisted(store, name) THEN Found("False", <<>>)
    ELSE LET docs == RetrievedDocuments(Take(store[name].rows, limit))
         IN  Found(IF docs = <<>> THEN "empty list" ELSE "list", docs)

\* --- QdrantDBProvider
\* is_collection_existed is a coroutine function; called without await it
\* yields a coroutine object, which is true in a condition
QdIsCollectionExistedNotAwaited(store, name) == TRUE

\* delete_collection, awaited: the condition is a coroutine object, so the
\* client's delete_collection always runs; it removes the collection if any
QdDeleteCollection(store, name) ==
    IF QdIsCollectionExistedNotAwaited(store, name)
    THEN Ret([store EXCEPT ![name] = NoCollection], "True")
    ELSE Ret(store, "None")

\* create_collection: self.delete_collection(...) is not awaited, so it does
\* not run; "not self.is_collection_existed(...)" is false
QdCreateCollection(store, name, do_reset) ==
    IF ~QdIsCollectionExistedNotAwaited(store, name)
    THEN Ret([store EXCEPT ![name] = EmptyCollection], "True")
    ELSE Ret(store, "False")

\* upload_records: points are keyed by id
QdUploadRecords(rows, new) ==
    SelectSeq(rows, LAMBDA r : r.chunk_id \notin RowIds(new)) \o new

\* one batch (batch_size is 50, a page holds at most page_size records)
QdInsertMany(store, name, txts, vectors, ids) ==
    IF txts = <<>> THEN Ret(store, "True")
    ELSE IF ~vectors.ok THEN Ret(store, "raise")
    ELSE IF Len(vectors.vecs) < Len(txts) \/ Len(ids) < Len(txts)
         THEN Ret(store, "raise")
    ELSE IF ~store[name].present THEN Ret(store, "False")
    ELSE Ret([store EXCEPT ![name].rows =
                 QdUploadRecords(@, ZipRows(txts, vectors.vecs, ids))],
             "True")

\* client.search raises for a collection the client does not hold; an empty
\* result becomes None
QdSearchByVector(store, name, limit) ==
    IF ~store[name].present THEN Found("raise", <<>>)
    ELSE LET docs == RetrievedDocuments(Take(store[name].rows, limit))
         IN  Found(IF docs = <<>> THEN "None" ELSE "list", docs)

\* --- the configured provider
DeleteCollection(b, store, name) ==
    IF b = "PGVECTOR" THEN PgDeleteCollection(store, name)
    ELSE QdDeleteCollection(store, name)

CreateCollection(b, store, name, do_reset) ==
    IF b = "PGVECTOR" THEN PgCreateCollection(store, name, do_reset)
    ELSE QdCreateCollection(store, name, do_reset)

InsertMany(b, store, name, txts, vectors, ids, stored_ids) ==
    IF b = "PGVECTOR"
    THEN PgInsertMany(store, name, txts, vectors, ids, stored_ids)
    ELSE QdInsertMany(store, name, txts, vectors, ids)

SearchByVector(b, store, name, limit) ==
    IF b = "PGVECTOR" THEN PgSearchByVector(store, name, limit)
    ELSE QdSearchByVector(store, name, limit)

\* ---------------------------------------------------------------- embedding
\* OpenAIProvider.embed_text: None, or one vector per record of the response
EmbedOutcomes == {"ok", "none", "short"}

EmbedText(txts, outcome) ==
    IF outcome = "none" \/ txts = <<>> THEN [ok |-> FALSE, vecs |-> <<>>]
    ELSE IF outcome = "short"
         THEN [ok |-> Len(txts) > 1,
               vecs |-> [i \in 1..(Len(txts) - 1) |-> "v"]]
    ELSE [ok |-> TRUE, vecs |-> [i \in 1..Len(txts) |-> "v"]]

\* ------------------------------------------------------ retrieval and answer
\* SearchRequest.limit
Limits == {0, 1, 2}

\* SearchRequest.text
Query == <<"a">>

default_input_max_characters == 1000

\* prompt[: self.default_input_max_characters].strip()
ProcessPrompt(prompt) ==
    Strip(SubSeq(prompt, 1, Min(default_input_max_characters, Len(prompt))))

ConstructPrompt(prompt, role) == [role |-> role, content |-> prompt]

\* the templates of the group "rag": the system instruction, the numbered
\* fragment "document N: <text>" and the footer holding the query
SystemPrompt == <<"system_prompt">>

DocumentPrompt(doc_num, chunk_text) == <<"document", doc_num, chunk_text>>

FooterPrompt(query) == <<"footer_prompt", query>>

\* "\n".join of the fragments: one line per fragment
JoinLines(fragments) == fragments

\* "\n\n".join([documents_prompt, footer_prompt])
FullPrompt(documents_prompt, footer_prompt) ==
    [documents |-> documents_prompt, footer |-> footer_prompt]

\* search_vector_db_collection: False without a query vector or without
\* results; an exception of the provider passes through
SearchVectorDbCollection(b, store, name, text, limit, embed) ==
    LET vectors == EmbedText(<<text>>, embed) IN
    IF ~vectors.ok \/ Len(vectors.vecs) = 0 THEN Found("False", <<>>)
    ELSE LET results == SearchByVector(b, store, name, limit) IN
         IF results.result = "raise" THEN results
         ELSE IF results.result # "list" THEN Found("False", <<>>)
         ELSE results

GenerateOutcomes == {"ok", "none"}

\* generate_text: the user turn is appended to the list the caller passed,
\* then the backend is called; None for a missing or malformed response
GenerateText(prompt, chat_history, outcome) ==
    LET appended == Append(chat_history, ConstructPrompt(prompt, "user")) IN
    [answer |-> IF outcome = "ok" THEN "answer" ELSE "None",
     chat_history |-> appended,
     messages |-> appended]

NoAnswer(result) ==
    [result |-> result, answer |-> "None",
     full_prompt |-> FullPrompt(<<>>, <<>>), chat_history |-> <<>>]

\* answer_rag_question: None without retrieved documents, else the tuple
\* (answer, full_prompt, chat_history)
AnswerRagQuestion(b, store, name, query, limit, embed, generate) ==
    LET retrieved_documents ==
            SearchVectorDbCollection(b, store, name, query, limit, embed)
    IN
    IF retrieved_documents.result = "raise" THEN NoAnswer("raise")
    ELSE IF retrieved_documents.result # "list" THEN NoAnswer("None")
    ELSE LET docs == retrieved_documents.docs
             documents_prompt ==
                 JoinLines([idx \in 1..Len(docs) |->
                              DocumentPrompt(idx, ProcessPrompt(docs[idx]))])
             footer_prompt == FooterPrompt(query)
             chat_history == <<ConstructPrompt(SystemPrompt, "system")>>
             full_prompt == FullPrompt(documents_prompt, footer_prompt)
             g == GenerateText(full_prompt, chat_history, generate)
         IN  [result |-> "tuple", answer |-> g.answer,
              full_prompt |-> full_prompt, chat_history |-> g.chat_history]

Response(signal, body) == [signal |-> signal, body |-> body]

\* search_index: an error response when the retrieval returned False
SearchIndex(b, store, name, text, limit, embed) ==
    LET results == SearchVectorDbCollection(b, store, name, text, limit, embed)
    IN  IF results.result = "raise" THEN Response("fault", results)
        ELSE IF results.result # "list"
        THEN Response("VECTORDB_SEARCH_ERROR", results)
        ELSE Response("VECTORDB_SEARCH_SUCCESS", results)

\* answer_rag: the returned value is unpacked into three names, which raises
\* TypeError for None; an answer that is None gives the error response
AnswerRag(b, store, name, query, limit, embed, generate) ==
    LET r == AnswerRagQuestion(b, store, name, query, limit, embed, generate)
    IN  IF r.result \in {"raise", "None"} THEN Response("fault", r)
        ELSE IF r.answer = "None" THEN Response("RAG_ANSWER_ERROR", r)
        ELSE Response("RAG_ANSWER_SUCCESS", r)

\* ------------------------------------------------------------------ inputs
SplitterTags == {<<"\n">>, <<"|">>, <<"\n", "\n">>}

ExampleSingleChars == <<<<"a", "\n", "b", "\n", "c", "\n", "d">>>>

ExampleTwoChars ==
    <<<<"a", "b", "\n", "c", "d", "\n", "e", "f", "\n", "g", "h">>>>

TextInputs ==
    {<<s>> : s \in StrsUpTo(MaxTextLen)}
    \cup {<<s, t>> : s \in StrsUpTo(MaxPartLen), t \in StrsUpTo(MaxPartLen)}
    \cup {ExampleSingleChars, ExampleTwoChars}

\* ------------------------------------------------------------------- state
VARIABLES
    texts,          \* argument of process_simpler_splitter
    chunk_size,     \* argument
    splitter_tag,   \* argument
    lines,          \* local: the kept, stripped segments
    line_no,        \* position of the for loop in lines
    current_chunk,  \* local: the running buffer
    chunks,         \* local: the chunks emitted so far
    emitted,        \* whether the latest loop iteration emitted a chunk
    sp_pc,          \* "idle" | "split" | "loop" | "done"
    backend,        \* VECTOR_DB_BACKEND
    assets,         \* table assets, with the content of each stored file
    chunks_tbl,     \* table chunks, in scan order
    next_chunk_id,  \* the autoincrement sequence of chunks.chunk_id
    vdb,            \* per backend, per collection name: the collection
    run,            \* the index_project request in flight
    rival,          \* a second index_project request in flight
    llm,            \* the generation provider and its latest call
    proc,           \* the process_endpoint request in flight
    call,           \* the latest direct call of a provider operation
    ans             \* the latest search or answer request and its response

spVars == <<texts, chunk_size, splitter_tag, lines, line_no, current_chunk,
            chunks, emitted, sp_pc>>

dbVars == <<assets, chunks_tbl, next_chunk_id>>

vars == <<spVars, backend, dbVars, vdb, run, rival, llm, proc, call, ans>>

SpIdle ==
    /\ texts = <<>>
    /\ chunk_size = 1
    /\ splitter_tag = <<"\n">>
    /\ lines = <<>>
    /\ line_no = 1
    /\ current_chunk = <<>>
    /\ chunks = <<>>
    /\ emitted = FALSE
    /\ sp_pc = "idle"

IdleRun ==
    [pc |-> "idle", project_id |-> 1, do_reset |-> FALSE, page_no |-> 1,
     inserted_items_count |-> 0, page_chunks |-> <<>>,
     vectors |-> [ok |-> FALSE, vecs |-> <<>>], inserted |-> "none",
     insert_failures |-> 0, reset_calls |-> 0, log |-> <<>>,
     rows_before |-> 0, upserted |-> {}, signal |-> "none"]

IdleProc ==
    [pc |-> "idle", project_id |-> 1, do_reset |-> 0, chunk_size |-> 1,
     file_id |-> 0, files |-> <<>>, no_records |-> 0, no_files |-> 0,
     signal |-> "none"]

NoCall ==
    [op |-> "none", name |-> CreateCollectionName(1), do_reset |-> FALSE,
     result |-> [b \in Backends |-> "none"],
     before |-> [b \in Backends |-> NoCollection],
     expected_before |-> "absent",
     expected |-> [n \in CollectionNames |-> "absent"],
     mismatch |-> FALSE, vector_size |-> 0, project_id |-> 0]

\* default_history is the list object created once for the default value of
\* generate_text's parameter chat_history; passed and kept are the caller's
\* list before and after the latest call, messages what the backend was
\* sent, answer what the call returned
NoLlm ==
    [op |-> "none", default_history |-> <<>>, by_default |-> FALSE,
     prompt |-> <<>>, passed |-> <<>>, kept |-> <<>>, messages |-> <<>>,
     answer |-> "None"]

NoAns ==
    [op |-> "none", limit |-> 0, embed |-> "ok", generate |-> "ok",
     response |-> [b \in Backends |-> Response("none", NoAnswer("none"))]]

NoCollections == [b \in Backends |-> [n \in CollectionNames |-> NoCollection]]

SysIdle ==
    /\ backend = "PGVECTOR"
    /\ assets = <<>>
    /\ chunks_tbl = <<>>
    /\ next_chunk_id = 1
    /\ vdb = NoCollections
    /\ run = IdleRun
    /\ rival = IdleRun
    /\ llm = NoLlm
    /\ proc = IdleProc
    /\ call = NoCall
    /\ ans = NoAns

sysVars == <<backend, dbVars, vdb, run, rival, llm, proc, call, ans>>

InitChunk ==
    /\ SysIdle
    /\ texts \in TextInputs
    /\ chunk_size \in 1..MaxChunkSize
    /\ splitter_tag \in SplitterTags
    /\ lines = <<>>
    /\ line_no = 1
    /\ current_chunk = <<>>
    /\ chunks = <<>>
    /\ emitted = FALSE
    /\ sp_pc = "split"

\* lines 143-151
SplitText ==
    /\ sp_pc = "split"
    /\ lines' = SplitLines(texts, splitter_tag)
    /\ line_no' = 1
    /\ current_chunk' = <<>>
    /\ chunks' = <<>>
    /\ sp_pc' = "loop"
    /\ UNCHANGED <<texts, chunk_size, splitter_tag, emitted, sysVars>>

\* lines 153-157, one iteration
AccumulateLine ==
    /\ sp_pc = "loop"
    /\ line_no <= Len(lines)
    /\ LET st == StepLine([chunks |-> chunks, current_chunk |-> current_chunk,
                           emitted |-> emitted],
                          lines[line_no], chunk_size, splitter_tag) IN
        /\ chunks' = st.chunks
        /\ current_chunk' = st.current_chunk
        /\ emitted' = st.emitted
    /\ line_no' = line_no + 1
    /\ UNCHANGED <<texts, chunk_size, splitter_tag, lines, sp_pc, sysVars>>

\* lines 159-162
EmitFinal ==
    /\ sp_pc = "loop"
    /\ line_no > Len(lines)
    /\ chunks' = FinalEmit([chunks |-> chunks, current_chunk |-> current_chunk,
                            emitted |-> emitted]).chunks
    /\ sp_pc' = "done"
    /\ UNCHANGED <<texts, chunk_size, splitter_tag, lines, line_no,
                   current_chunk, emitted, sysVars>>

NextChunk == SplitText \/ AccumulateLine \/ EmitFinal

SpecChunk == InitChunk /\ [][NextChunk]_vars

\* ---------------------------------------------------------------- requests
\* one text document per file, as TextLoader.load() returns it
FileTwoLines == <<<<"a", "b", "\n", "c", "d">>>>

FileShort == <<<<"a">>>>

Asset(id, project_id, loadable, content) ==
    [asset_id |-> id, asset_project_id |-> project_id, asset_name |-> id,
     loadable |-> loadable, content |-> content]

\* The assets a run of the system starts with: uploads are made before the
\* pipeline runs and assets are never changed afterwards.  A file the loader
\* returns None for is not loadable and has no content to process.
AssetTables ==
    {<<>>,
     <<Asset(1, 1, TRUE, FileTwoLines)>>,
     <<Asset(1, 1, TRUE, FileShort), Asset(2, 1, FALSE, <<>>)>>,
     <<Asset(1, 1, TRUE, FileTwoLines), Asset(2, 2, TRUE, FileShort)>>,
     <<Asset(1, 2, TRUE, FileShort), Asset(2, 2, TRUE, FileShort)>>}

FileIdNone == 0

\* file_id of a process request: none, or the name of an asset of some table
FileIds ==
    {FileIdNone}
    \cup UNION {{t[i].asset_name : i \in 1..Len(t)} : t \in AssetTables}

ChunkSizes == {3}

Active(r) == r.pc \notin {"idle", "done", "failed", "fault"}

Busy == Active(run) \/ Active(proc)

AssetsOf(project_id) ==
    SelectSeq(assets, LAMBDA a : a.asset_project_id = project_id)

AssetIdsOf(project_id) ==
    [i \in 1..Len(AssetsOf(project_id)) |-> AssetsOf(project_id)[i].asset_id]

\* process_file_content
ProcessFileContent(content, size) ==
    ProcessSimplerSplitter(content, size, <<"\n">>)

RECURSIVE NewChunkCount(_, _)
NewChunkCount(as, size) ==
    IF as = <<>> THEN 0
    ELSE (IF Head(as).loadable
          THEN Len(ProcessFileContent(Head(as).content, size)) ELSE 0)
         + NewChunkCount(Tail(as), size)

\* --- process_endpoint
\* get_asset_record: the assets of the project with the given name
GetAssetRecord(project_id, asset_name) ==
    SelectSeq(AssetsOf(project_id), LAMBDA a : a.asset_name = asset_name)

\* mutant of Validate: the request goes on without the checks
ValidateNothing(project_id, file_id) == "ok"

\* routes/data.py 134-174: validation.  With a file_id the asset is looked up
\* by project and name; the record found is then read through the attribute
\* "id", which the Asset schema does not define
Validate(project_id, file_id) ==
    IF file_id # FileIdNone /\ GetAssetRecord(project_id, file_id) = <<>>
    THEN "FILE_ID_ERROR"
    ELSE IF file_id # FileIdNone THEN "fault"
    ELSE IF AssetsOf(project_id) = <<>> THEN "NO_FILES_ERROR"
    ELSE "ok"

\* routes/data.py 117-181
ProcessStart(project_id, do_reset, file_id, size) ==
    /\ ~Busy
    /\ next_chunk_id - 1 + NewChunkCount(AssetsOf(project_id), size)
           <= MaxChunkId
    /\ LET checked == Validate(project_id, file_id)
           req == [IdleProc EXCEPT !.project_id = project_id,
                                   !.do_reset = do_reset,
                                   !.chunk_size = size,
                                   !.file_id = file_id]
       IN  proc' =
             IF checked = "fault"
             THEN [req EXCEPT !.pc = "fault", !.signal = "fault"]
             ELSE IF checked # "ok"
             THEN [req EXCEPT !.pc = "failed", !.signal = checked]
             ELSE [req EXCEPT !.pc = IF do_reset = 1 THEN "delete_collection"
                                     ELSE "files",
                              !.files = AssetIdsOf(project_id)]
    /\ run' = IdleRun
    /\ UNCHANGED <<spVars, llm, rival, backend, ans, dbVars, vdb, call>>

\* routes/data.py 184-189
ProcessDeleteCollection ==
    /\ proc.pc = "delete_collection"
    /\ vdb' = [vdb EXCEPT ![backend] =
                 DeleteCollection(backend, @,
                     CreateCollectionName(proc.project_id)).store]
    /\ proc' = [proc EXCEPT !.pc = "delete_chunks"]
    /\ UNCHANGED <<spVars, llm, rival, backend, ans, dbVars, run, call>>

\* rows of a pgvector table reference chunks(chunk_id)
Referenced(project_id) ==
    \E n \in CollectionNames :
        \E i \in 1..Len(vdb["PGVECTOR"][n].rows) :
            \E j \in 1..Len(chunks_tbl) :
                /\ chunks_tbl[j].chunk_project_id = project_id
                /\ chunks_tbl[j].chunk_id = vdb["PGVECTOR"][n].rows[i].chunk_id

\* routes/data.py 191-194
ProcessDeleteChunks ==
    /\ proc.pc = "delete_chunks"
    /\ IF Referenced(proc.project_id)
       THEN /\ proc' = [proc EXCEPT !.pc = "fault", !.signal = "fault"]
            /\ UNCHANGED chunks_tbl
       ELSE /\ chunks_tbl' = DeleteChunksByProjectId(chunks_tbl,
                                                     proc.project_id)
            /\ proc' = [proc EXCEPT !.pc = "files"]
    /\ UNCHANGED <<spVars, llm, rival, backend, ans, assets, next_chunk_id, vdb, run, call>>

\* routes/data.py 197-241: one iteration of the loop over the files, and the
\* success response after the last one
ProcessFile ==
    /\ proc.pc = "files"
    /\ LET asset == assets[Head(proc.files)]
           rest == Tail(proc.files)
           file_chunks == ProcessFileContent(asset.content, proc.chunk_size)
           records == DataChunks(file_chunks, proc.project_id, asset.asset_id,
                                 next_chunk_id)
           after == [proc EXCEPT
                        !.files = rest,
                        !.pc = IF rest = <<>> THEN "done" ELSE "files",
                        !.signal = IF rest = <<>> THEN "PROCESSING_SUCCESS"
                                   ELSE "none"]
       IN  IF ~asset.loadable
           THEN /\ proc' = after
                /\ UNCHANGED <<chunks_tbl, next_chunk_id>>
           ELSE IF Len(file_chunks) = 0
           THEN /\ proc' = [proc EXCEPT !.pc = "failed",
                                        !.signal = "PROCESSING_FAILED"]
                /\ UNCHANGED <<chunks_tbl, next_chunk_id>>
           ELSE /\ chunks_tbl' = InsertManyChunks(chunks_tbl, records)
                /\ next_chunk_id' = next_chunk_id + Len(records)
                /\ proc' = [after EXCEPT
                               !.no_records = @ + Len(records),
                               !.no_files = @ + 1]
    /\ UNCHANGED <<spVars, llm, rival, backend, ans, assets, vdb, run, call>>

\* --- index_project
Texts(page) == [i \in 1..Len(page) |-> page[i].chunk_content]

Ids(page) == [i \in 1..Len(page) |-> page[i].chunk_id]

RunCollection == CreateCollectionName(run.project_id)

\* The steps of index_project between two awaited calls, for a request r:
\* r.log lists the awaited calls made, r.reset_calls counts the create calls
\* made with do_reset, r.upserted holds the chunk ids of the pages
\* insert_many accepted.

\* routes/nlp.py 39-63
StartRun(project_id, do_reset, store) ==
    [IdleRun EXCEPT
        !.pc = "create", !.project_id = project_id, !.do_reset = do_reset,
        !.rows_before = Len(store[CreateCollectionName(project_id)].rows)]

\* routes/nlp.py 65-81
CreateCollectionStep(r, store) ==
    [run   |-> [r EXCEPT !.pc = "fetch",
                         !.reset_calls = @ + (IF r.do_reset THEN 1 ELSE 0)],
     store |-> CreateCollection(backend, store,
                                CreateCollectionName(r.project_id),
                                r.do_reset).store]

\* routes/nlp.py 84-96
FetchPageStep(r, scan) ==
    LET page == GetProjectChunks(scan, r.project_id, r.page_no)
        logged == Append(r.log, <<"fetch", r.page_no>>)
    IN  IF Len(page) = 0
        THEN [r EXCEPT !.pc = "done", !.page_chunks = page,
                       !.log = logged,
                       !.signal = "INSERT_INTO_VECTORDB_SUCCESS"]
        ELSE [r EXCEPT !.pc = "embed", !.page_chunks = page,
                       !.page_no = @ + 1, !.log = logged]

\* controllers/NLPController.py 95-103
EmbedStep(r, outcome) ==
    [r EXCEPT !.pc = "ensure",
              !.vectors = EmbedText(Texts(r.page_chunks), outcome),
              !.log = Append(@, <<"embed", r.page_no - 1>>)]

\* mutant of EnsureDoReset: the request's do_reset is passed on for each page
EnsureDoResetFromRequest(r) == r.do_reset

\* index_project calls index_into_vector_db without do_reset, which keeps
\* its default, False
EnsureDoReset(r) == FALSE

\* controllers/NLPController.py 105-110
EnsureCollectionStep(r, store) ==
    [run   |-> [r EXCEPT !.pc = "upsert",
                         !.reset_calls =
                             @ + (IF EnsureDoReset(r) THEN 1 ELSE 0)],
     store |-> CreateCollection(backend, store,
                                CreateCollectionName(r.project_id),
                                EnsureDoReset(r)).store]

\* controllers/NLPController.py 113-121: the result of insert_many is dropped
IndexIntoVectorDb(insert_result) == "True"

\* controllers/NLPController.py 112-121, routes/nlp.py 105-112
UpsertStep(r, store, tbl) ==
    LET res == InsertMany(backend, store, CreateCollectionName(r.project_id),
                          Texts(r.page_chunks), r.vectors,
                          Ids(r.page_chunks), ChunkIds(tbl))
        logged == Append(r.log, <<"upsert", r.page_no - 1>>)
    IN  IF res.result = "raise"
        THEN [run   |-> [r EXCEPT !.pc = "fault", !.signal = "fault",
                                  !.inserted = "raise", !.log = logged],
              store |-> store]
        ELSE [run |->
                IF IndexIntoVectorDb(res.result) = "True"
                THEN [r EXCEPT
                         !.pc = "fetch", !.inserted = res.result,
                         !.insert_failures =
                             @ + (IF res.result = "False" THEN 1 ELSE 0),
                         !.log = logged,
                         !.upserted =
                             IF res.result = "True"
                             THEN @ \cup RowIds(r.page_chunks) ELSE @,
                         !.inserted_items_count = @ + Len(r.page_chunks)]
                ELSE [r EXCEPT
                         !.pc = "failed", !.inserted = res.result,
                         !.insert_failures = @ + 1,
                         !.log = logged,
                         !.signal = "INSERT_INTO_VECTORDB_ERROR"],
              store |-> res.store]

IndexStart(project_id, do_reset) ==
    /\ ~Busy
    /\ do_reset \/
         Len(vdb[backend][CreateCollectionName(project_id)].rows)
           + GetChunksCountByProjectId(chunks_tbl, project_id) <= MaxRows
    /\ run' = StartRun(project_id, do_reset, vdb[backend])
    /\ proc' = IdleProc
    /\ UNCHANGED <<spVars, llm, rival, backend, ans, dbVars, vdb, call>>

IndexCreateCollection ==
    /\ run.pc = "create"
    /\ LET step == CreateCollectionStep(run, vdb[backend]) IN
        /\ vdb' = [vdb EXCEPT ![backend] = step.store]
        /\ run' = step.run
    /\ UNCHANGED <<spVars, llm, rival, backend, ans, dbVars, proc, call>>

\* mutant of MayFetch: the next page is fetched while the upsert is pending
MayFetchAhead(r) == r.pc \in {"fetch", "upsert"}

\* the loop fetches a page only at its head
MayFetch(r) == r.pc = "fetch"

IndexFetchPage ==
    /\ MayFetch(run)
    /\ \E scan \in ScanOrders(chunks_tbl) : run' = FetchPageStep(run, scan)
    /\ UNCHANGED <<spVars, llm, rival, backend, ans, dbVars, vdb, proc, call>>

IndexEmbed(outcome) ==
    /\ run.pc = "embed"
    /\ run' = EmbedStep(run, outcome)
    /\ UNCHANGED <<spVars, llm, rival, backend, ans, dbVars, vdb, proc, call>>

IndexEnsureCollection ==
    /\ run.pc = "ensure"
    /\ LET step == EnsureCollectionStep(run, vdb[backend]) IN
        /\ vdb' = [vdb EXCEPT ![backend] = step.store]
        /\ run' = step.run
    /\ UNCHANGED <<spVars, llm, rival, backend, ans, dbVars, proc, call>>

IndexUpsert ==
    /\ run.pc = "upsert"
    /\ LET step == UpsertStep(run, vdb[backend], chunks_tbl) IN
        /\ vdb' = [vdb EXCEPT ![backend] = step.store]
        /\ run' = step.run
    /\ UNCHANGED <<spVars, llm, rival, backend, ans, dbVars, proc, call>>

Init ==
    /\ SpIdle
    /\ backend \in Backends
    /\ assets \in AssetTables
    /\ chunks_tbl = <<>>
    /\ next_chunk_id = 1
    /\ vdb = NoCollections
    /\ run = IdleRun
    /\ rival = IdleRun
    /\ llm = NoLlm
    /\ proc = IdleProc
    /\ call = NoCall
    /\ ans = NoAns

Next ==
    \/ \E p \in ProjectIds, d \in {0, 1}, f \in FileIds,
          size \in ChunkSizes : ProcessStart(p, d, f, size)
    \/ ProcessDeleteCollection
    \/ ProcessDeleteChunks
    \/ ProcessFile
    \/ \E p \in ProjectIds, d \in BOOLEAN : IndexStart(p, d)
    \/ IndexCreateCollection
    \/ IndexFetchPage
    \/ \E o \in EmbedOutcomes : IndexEmbed(o)
    \/ IndexEnsureCollection
    \/ IndexUpsert

Spec == Init /\ [][Next]_vars

\* index_project is one coroutine: once started, the event loop resumes it
\* after every awaited call until it returns or raises
IndexStep ==
    \/ IndexCreateCollection
    \/ IndexFetchPage
    \/ \E o \in EmbedOutcomes : IndexEmbed(o)
    \/ IndexEnsureCollection
    \/ IndexUpsert

SpecLive == Spec /\ WF_vars(IndexStep)

\* ------------------------------------------------- provider calls, SpecVdb
\* Every operation of VectorDBInterface is called on both providers with the
\* same arguments; call records the call, each provider's result and the
\* collection as it was before.  Search and answer requests are served on
\* both providers too; ans holds the responses to the latest request until
\* the next provider call.
VdbAssets == <<Asset(1, 2, TRUE, FileShort), Asset(2, 2, TRUE, FileShort)>>

\* the chunk table after one process request on VdbAssets
VdbChunks ==
    DataChunks(ProcessFileContent(FileShort, 3), 2, 1, 1)
    \o DataChunks(ProcessFileContent(FileShort, 3), 2, 2, 2)

VdbName == CreateCollectionName(2)

\* the ids of the stored chunks, and one id no chunk has
RecordIds == ChunkIds(VdbChunks) \cup {Len(VdbChunks) + 1}

RECURSIVE SeqsOfLen(_, _)
SeqsOfLen(S, n) ==
    IF n = 0 THEN {<<>>}
    ELSE {Append(q, x) : q \in SeqsOfLen(S, n - 1), x \in S}

RecordIdLists == UNION {SeqsOfLen(RecordIds, n) : n \in 0..MaxRecords}

\* None, or a list of len(record_ids) + d vectors
VectorChoices(ids) ==
    {[ok |-> FALSE, vecs |-> <<>>]}
    \cup {[ok |-> TRUE, vecs |-> [i \in 1..(Len(ids) + d) |-> "v"]] :
            d \in {e \in {-1, 0, 1} : Len(ids) + e >= 0}}

\* the text stored with record id n: n characters
RowTexts(ids) == [i \in 1..Len(ids) |-> [k \in 1..ids[i] |-> "a"]]

InitVdb ==
    /\ SpIdle
    /\ backend = "PGVECTOR"
    /\ assets = VdbAssets
    /\ chunks_tbl = VdbChunks
    /\ next_chunk_id = Len(VdbChunks) + 1
    /\ vdb = NoCollections
    /\ run = IdleRun
    /\ rival = IdleRun
    /\ llm = NoLlm
    /\ proc = IdleProc
    /\ call = NoCall
    /\ ans = NoAns

Called(op, do_reset, results, expected) ==
    [op |-> op, name |-> VdbName, do_reset |-> do_reset,
     result |-> results,
     before |-> [b \in Backends |-> vdb[b][VdbName]],
     expected_before |-> call.expected[VdbName],
     expected |-> [call.expected EXCEPT ![VdbName] = expected],
     mismatch |-> FALSE, vector_size |-> 0, project_id |-> 0]

VdbCreate(do_reset) ==
    LET r == [b \in Backends |->
                CreateCollection(b, vdb[b], VdbName, do_reset)] IN
    /\ vdb' = [b \in Backends |-> r[b].store]
    /\ call' = Called("create", do_reset,
                      [b \in Backends |-> r[b].result],
                      IF do_reset \/ call.expected[VdbName] = "absent"
                      THEN "empty" ELSE call.expected[VdbName])
    /\ ans' = NoAns
    /\ UNCHANGED <<spVars, llm, rival, backend, dbVars, run, proc>>

VdbDelete ==
    LET r == [b \in Backends |-> DeleteCollection(b, vdb[b], VdbName)] IN
    /\ vdb' = [b \in Backends |-> r[b].store]
    /\ call' = Called("delete", FALSE, [b \in Backends |-> r[b].result],
                      "absent")
    /\ ans' = NoAns
    /\ UNCHANGED <<spVars, llm, rival, backend, dbVars, run, proc>>

VdbInsertMany(ids, vectors) ==
    LET r == [b \in Backends |->
                InsertMany(b, vdb[b], VdbName, RowTexts(ids), vectors, ids,
                           ChunkIds(chunks_tbl))]
        valid == /\ ids # <<>>
                 /\ vectors.ok
                 /\ Len(vectors.vecs) = Len(ids)
                 /\ \A i \in 1..Len(ids) : ids[i] \in ChunkIds(chunks_tbl)
    IN
    /\ \A b \in Backends : Len(vdb[b][VdbName].rows) + Len(ids) <= MaxRows
    /\ vdb' = [b \in Backends |-> r[b].store]
    /\ call' = [Called("insert_many", FALSE,
                       [b \in Backends |-> r[b].result],
                       IF valid /\ call.expected[VdbName] # "absent"
                       THEN "rows" ELSE call.expected[VdbName])
                EXCEPT !.mismatch =
                    vectors.ok /\ Len(vectors.vecs) # Len(ids)]
    /\ ans' = NoAns
    /\ UNCHANGED <<spVars, llm, rival, backend, dbVars, run, proc>>

VdbSearch(limit) ==
    /\ call' = Called("search", FALSE,
                      [b \in Backends |->
                         SearchByVector(b, vdb[b], VdbName, limit).result],
                      call.expected[VdbName])
    /\ ans' = NoAns
    /\ UNCHANGED <<spVars, llm, rival, backend, dbVars, vdb, run, proc>>

Asked(op, limit, embed, generate, responses) ==
    [op |-> op, limit |-> limit, embed |-> embed, generate |-> generate,
     response |-> responses]

\* POST /index/search/{project_id}
VdbSearchIndex(limit, embed) ==
    /\ ans' = Asked("search", limit, embed, "ok",
                    [b \in Backends |->
                       SearchIndex(b, vdb[b], VdbName, Query, limit, embed)])
    /\ UNCHANGED <<spVars, llm, rival, backend, dbVars, vdb, run, proc, call>>

\* POST /index/answer/{project_id}
VdbAnswerRag(limit, embed, generate) ==
    /\ ans' = Asked("answer", limit, embed, generate,
                    [b \in Backends |->
                       AnswerRag(b, vdb[b], VdbName, Query, limit, embed,
                                 generate)])
    /\ UNCHANGED <<spVars, llm, rival, backend, dbVars, vdb, run, proc, call>>

NextVdb ==
    \/ \E d \in BOOLEAN : VdbCreate(d)
    \/ VdbDelete
    \/ \E ids \in RecordIdLists :
          \E v \in VectorChoices(ids) : VdbInsertMany(ids, v)
    \/ \E limit \in Limits : VdbSearch(limit)
    \/ \E limit \in Limits, embed \in EmbedOutcomes :
          VdbSearchIndex(limit, embed)
    \/ \E limit \in Limits, embed \in EmbedOutcomes,
          generate \in GenerateOutcomes : VdbAnswerRag(limit, embed, generate)

SpecVdb == InitVdb /\ [][NextVdb]_vars

\* ------------------------------------------------- chunk pages, SpecPages
\* chunk tables of up to MaxChunkId rows, every row of one of the projects
ChunkTable(owners) ==
    [i \in 1..Len(owners) |->
        [chunk_id         |-> i,
         chunk_content    |-> <<"a">>,
         chunk_order      |-> i,
         chunk_project_id |-> owners[i],
         chunk_asset_id   |-> owners[i]]]

ChunkTables ==
    {ChunkTable(o) :
        o \in UNION {SeqsOfLen(ProjectIds, n) : n \in 0..MaxChunkId}}

\* page_no of get_project_chunks: from 1 to past the last page of any table
PageNumbers == 1..((MaxChunkId \div page_size) + 2)

InitPages ==
    /\ SpIdle
    /\ backend = "PGVECTOR"
    /\ assets = <<>>
    /\ chunks_tbl \in ChunkTables
    /\ next_chunk_id = Len(chunks_tbl) + 1
    /\ vdb = NoCollections
    /\ run = IdleRun
    /\ rival = IdleRun
    /\ llm = NoLlm
    /\ proc = IdleProc
    /\ call = NoCall
    /\ ans = NoAns

\* one call of get_project_chunks; the page is kept in run.page_chunks
GetPage(project_id, page_no) ==
    /\ \E scan \in ScanOrders(chunks_tbl) :
          run' = [IdleRun EXCEPT
                     !.pc = "paged", !.project_id = project_id,
                     !.page_no = page_no,
                     !.page_chunks =
                         GetProjectChunks(scan, project_id, page_no)]
    /\ UNCHANGED <<spVars, llm, rival, backend, ans, dbVars, vdb, proc, call>>

NextPages == \E project_id \in ProjectIds, page_no \in PageNumbers :
                 GetPage(project_id, page_no)

SpecPages == InitPages /\ [][NextPages]_vars

\* -------------------------------------------- collection names, SpecName
\* vector sizes and project ids the names are formed of
NameNumbers == {1, 7, 8, 11, 12, 68, 76, 87, 111, 768, 1024}

InitName == InitPages /\ chunks_tbl = <<>>

\* one call of create_collection_name by a controller whose provider has
\* the given vector size; the name is kept in call.name
CollectionNameCall(vector_size, project_id) ==
    /\ call' = [NoCall EXCEPT
                   !.op = "name", !.vector_size = vector_size,
                   !.project_id = project_id,
                   !.name = FormatCollectionName(vector_size, project_id)]
    /\ UNCHANGED <<spVars, llm, rival, backend, ans, dbVars, vdb, run, proc>>

NextName == \E vector_size \in NameNumbers, project_id \in NameNumbers :
                CollectionNameCall(vector_size, project_id)

SpecName == InitName /\ [][NextName]_vars

\* ------------------------------------------- two index requests, SpecRace
\* Two index_project requests for project 1 are served by one event loop on
\* PGVECTOR: each runs from one awaited call to the next, and at every
\* awaited call the loop may resume the other.  The embedding provider
\* answers every call.
RaceChunks == ChunkTable([i \in 1..(page_size + 1) |-> 1])

Runners == {"run", "rival"}

Runner(who) == IF who = "run" THEN run ELSE rival

Resume(who, r) ==
    IF who = "run" THEN run' = r /\ UNCHANGED rival
    ELSE rival' = r /\ UNCHANGED run

InitRace ==
    /\ SpIdle
    /\ backend = "PGVECTOR"
    /\ assets = <<>>
    /\ chunks_tbl = RaceChunks
    /\ next_chunk_id = Len(RaceChunks) + 1
    /\ vdb = NoCollections
    /\ run = IdleRun
    /\ rival = IdleRun
    /\ llm = NoLlm
    /\ proc = IdleProc
    /\ call = NoCall
    /\ ans = NoAns

RaceStart(who, do_reset) ==
    /\ Runner(who).pc = "idle"
    /\ Resume(who, StartRun(1, do_reset, vdb[backend]))
    /\ UNCHANGED <<spVars, llm, backend, ans, dbVars, vdb, proc, call>>

RaceCreateCollection(who) ==
    /\ Runner(who).pc = "create"
    /\ LET step == CreateCollectionStep(Runner(who), vdb[backend]) IN
        /\ vdb' = [vdb EXCEPT ![backend] = step.store]
        /\ Resume(who, step.run)
    /\ UNCHANGED <<spVars, llm, backend, ans, dbVars, proc, call>>

RaceFetchPage(who) ==
    /\ MayFetch(Runner(who))
    /\ \E scan \in ScanOrders(chunks_tbl) :
          Resume(who, FetchPageStep(Runner(who), scan))
    /\ UNCHANGED <<spVars, llm, backend, ans, dbVars, vdb, proc, call>>

RaceEmbed(who) ==
    /\ Runner(who).pc = "embed"
    /\ Resume(who, EmbedStep(Runner(who), "ok"))
    /\ UNCHANGED <<spVars, llm, backend, ans, dbVars, vdb, proc, call>>

RaceEnsureCollection(who) ==
    /\ Runner(who).pc = "ensure"
    /\ LET step == EnsureCollectionStep(Runner(who), vdb[backend]) IN
        /\ vdb' = [vdb EXCEPT ![backend] = step.store]
        /\ Resume(who, step.run)
    /\ UNCHANGED <<spVars, llm, backend, ans, dbVars, proc, call>>

RaceUpsert(who) ==
    /\ Runner(who).pc = "upsert"
    /\ Len(vdb[backend][CreateCollectionName(1)].rows)
         + Len(Runner(who).page_chunks) <= MaxRows
    /\ LET step == UpsertStep(Runner(who), vdb[backend], chunks_tbl) IN
        /\ vdb' = [vdb EXCEPT ![backend] = step.store]
        /\ Resume(who, step.run)
    /\ UNCHANGED <<spVars, llm, backend, ans, dbVars, proc, call>>

NextRace ==
    \E who \in Runners :
        \/ \E do_reset \in BOOLEAN : RaceStart(who, do_reset)
        \/ RaceCreateCollection(who)
        \/ RaceFetchPage(who)
        \/ RaceEmbed(who)
        \/ RaceEnsureCollection(who)
        \/ RaceUpsert(who)

SpecRace == InitRace /\ [][NextRace]_vars

\* ------------------------------------------- generation calls, SpecGen
Prompts == {<<"a">>, <<"b">>}

\* the lists a caller passes: an empty history, or the system instruction
Histories == {<<>>, <<ConstructPrompt(SystemPrompt, "system")>>}

InitGen == InitPages /\ chunks_tbl = <<>>

\* one call of generate_text, with a list of the caller or, by_default,
\* without the argument chat_history
GenerateCall(prompt, by_default, history, outcome) ==
    /\ by_default => Len(llm.default_history) < MaxTurns
    /\ LET passed == IF by_default THEN llm.default_history ELSE history
           g == GenerateText(prompt, passed, outcome)
       IN  llm' = [op |-> "generate",
                   default_history |->
                       IF by_default THEN g.chat_history
                       ELSE llm.default_history,
                   by_default |-> by_default,
                   prompt |-> prompt,
                   passed |-> IF by_default THEN <<>> ELSE history,
                   kept |-> IF by_default THEN <<>> ELSE g.chat_history,
                   messages |-> g.messages,
                   answer |-> g.answer]
    /\ UNCHANGED <<spVars, backend, ans, dbVars, vdb, run, rival, proc, call>>

NextGen ==
    \E prompt \in Prompts, by_default \in BOOLEAN, history \in Histories,
       outcome \in GenerateOutcomes :
        GenerateCall(prompt, by_default, history, outcome)

SpecGen == InitGen /\ [][NextGen]_vars

\* ================================================================== claims
\* Indexing and chunk store claims are checked under Spec, provider contract
\* claims under SpecVdb.

\* C1: if insert_many reports failure for a page, the run fails at once: it
\* returns the insert-failure signal, fetches no later page and never
\* returns the success signal.
C1_InsertFailureFailsRun ==
    run.inserted = "False" =>
        /\ run.pc = "failed"
        /\ run.signal = "INSERT_INTO_VECTORDB_ERROR"

\* C2: for every backend, create(name, size, doReset=true) on a collection
\* that holds inserted rows (created and then given rows through the
\* interface) returns true and leaves the collection present with no rows.
C2_ResetLeavesEmptyCollection ==
    (call.op = "create" /\ call.do_reset /\ call.expected_before = "rows") =>
        \A b \in Backends :
            /\ call.result[b] = "True"
            /\ vdb[b][VdbName].present
            /\ vdb[b][VdbName].rows = <<>>

\* C3: for every backend, create(name, size, doReset=false) returns true on
\* an absent collection and makes it present; called again it returns false
\* and leaves the collection and its rows as they were, also when rows were
\* inserted in between.
C3_CreateTwiceTrueThenFalse ==
    (call.op = "create" /\ ~call.do_reset) =>
        \A b \in Backends :
            IF call.expected_before = "absent"
            THEN call.result[b] = "True" /\ vdb[b][VdbName].present
            ELSE call.result[b] = "False" /\ vdb[b][VdbName] = call.before[b]

ProjectChunkIds(project_id) ==
    ChunkIds(SelectProject(chunks_tbl, project_id))

\* C4: after an indexing run with doReset=false in which every insert_many
\* succeeded, whatever runs came before it, the collection holds exactly one
\* row per chunk id of the project and as many rows as the project has
\* chunks.
C4_RerunKeepsOneRowPerChunk ==
    (run.pc = "done" /\ ~run.do_reset /\ run.insert_failures = 0) =>
        LET rows == vdb[backend][RunCollection].rows IN
        /\ RowIds(rows) = ProjectChunkIds(run.project_id)
        /\ Len(rows) = GetChunksCountByProjectId(chunks_tbl, run.project_id)

\* C8: every chunk in the chunk store has content that is not empty after
\* trimming.
C8_StoredContentNonEmpty ==
    \A i \in 1..Len(chunks_tbl) : Strip(chunks_tbl[i].chunk_content) # <<>>

\* C9: every chunk in the chunk store has chunk_order >= 1 and no two chunks
\* of the same asset share a chunk_order.
C9_OrderUniqueWithinAsset ==
    \A i \in 1..Len(chunks_tbl) :
        /\ chunks_tbl[i].chunk_order >= 1
        /\ \A j \in 1..Len(chunks_tbl) :
               (i # j /\ chunks_tbl[i].chunk_asset_id
                           = chunks_tbl[j].chunk_asset_id)
                   => chunks_tbl[i].chunk_order # chunks_tbl[j].chunk_order

\* the event that follows e in a run without prefetch
FollowsInOrder(e, f) ==
    \/ e[1] = "fetch" /\ f = <<"embed", e[2]>>
    \/ e[1] = "embed" /\ f = <<"upsert", e[2]>>
    \/ e[1] = "upsert" /\ f = <<"fetch", e[2] + 1>>

\* C10: within one indexing run the fetch, embed and upsert events are
\* strictly sequential per page: the run starts by fetching page 1, each
\* fetch of a page is followed by its embed and then its upsert, and page
\* N+1 is fetched only after the upsert of page N.
C10_NoPrefetch ==
    /\ run.log # <<>> => run.log[1] = <<"fetch", 1>>
    /\ \A i \in 1..(Len(run.log) - 1) : FollowsInOrder(run.log[i], run.log[i + 1])
    /\ \A i \in 1..Len(run.log) :
           (run.log[i][1] = "fetch" /\ run.log[i][2] > 1) =>
               \E j \in 1..(i - 1) : run.log[j] = <<"upsert", run.log[i][2] - 1>>

\* C10 witness: a run that fetched, embedded and upserted two pages and then
\* fetched the empty third one.
C10_Witness ==
    /\ run.pc = "done"
    /\ Len(run.log) = 7
    /\ run.log[7] = <<"fetch", 3>>
    /\ run.inserted_items_count = 3

\* Chunker claims are checked under SpecChunk.

Content(i) == chunks[i].page_content

\* C5 (as stated): every emitted chunk except possibly the last one has
\* trimmed content length >= chunk_size.
C5_TrimmedAtLeastChunkSize ==
    sp_pc = "done" =>
        \A i \in 1..(Len(chunks) - 1) : Len(Strip(Content(i))) >= chunk_size

\* C5 (amended): every emitted chunk except possibly the last one has trimmed
\* content length >= chunk_size - len(splitter): the buffer reaches chunk_size
\* before it is trimmed, and trimming removes at most the trailing splitter.
C5_TrimmedAtLeastChunkSizeMinusSplitter ==
    sp_pc = "done" =>
        \A i \in 1..(Len(chunks) - 1) :
            Len(Strip(Content(i))) >= chunk_size - Len(splitter_tag)

\* C5 witness: a finished run whose first chunk is not the last one and is
\* shorter than chunk_size after trimming.
C5_Witness ==
    /\ sp_pc = "done"
    /\ Len(chunks) >= 2
    /\ Len(Content(1)) = chunk_size - Len(splitter_tag)
    /\ Len(Content(1)) < chunk_size

IsExampleSingleChars ==
    /\ texts = ExampleSingleChars
    /\ chunk_size = 3
    /\ splitter_tag = <<"\n">>

IsExampleTwoChars ==
    /\ texts = ExampleTwoChars
    /\ chunk_size = 6
    /\ splitter_tag = <<"\n">>

C7_FinalBufferAlwaysEmitted ==
    sp_pc = "done" =>
        /\ Len(chunks) >= 1
        /\ Content(Len(chunks)) = Strip(current_chunk)
        /\ (lines = <<>> \/ emitted) => Content(Len(chunks)) = <<>>

\* C7 witness: a finished run whose last kept segment filled the buffer, so
\* the output ends with an empty chunk after a non-empty one.
C7_Witness ==
    /\ sp_pc = "done"
    /\ lines # <<>>
    /\ emitted
    /\ Len(chunks) >= 2
    /\ Content(Len(chunks)) = <<>>
    /\ Content(Len(chunks) - 1) # <<>>

\* Page loop and end-to-end claims are checked under Spec and SpecLive.

FetchedPages == SelectSeq(run.log, LAMBDA e : e[1] = "fetch")

RunPage(page_no) == GetProjectChunks(chunks_tbl, run.project_id, page_no)

RunChunkCount == GetChunksCountByProjectId(chunks_tbl, run.project_id)

C11_PageLoopInv ==
    /\ \A i \in 1..Len(FetchedPages) : FetchedPages[i][2] = i
    /\ \A i \in 1..Len(run.log) :
           (run.log[i][1] = "fetch" /\ RunPage(run.log[i][2]) = <<>>) =>
               (i = Len(run.log) /\ run.pc = "done")
    /\ Len(FetchedPages) <= RunChunkCount + 1
    /\ run.pc = "done" =>
           /\ run.signal = "INSERT_INTO_VECTORDB_SUCCESS"
           /\ run.inserted_items_count = RunChunkCount
           /\ RunPage(Len(FetchedPages)) = <<>>

\* C11: with the chunk set fixed during the run, the page loop fetches
\* pages 1, 2, ... in increasing order, stops at the first empty page, always
\* terminates, and on success reports inserted_items_count equal to the
\* project's chunk count (0 for a project with no chunks).
C11_PageLoopTerminates ==
    /\ []C11_PageLoopInv
    /\ Active(run) ~> ~Active(run)

\* C11 witness: a successful run over three chunks, ended by the empty third
\* page, and reporting three inserted items.
C11_Witness ==
    /\ run.pc = "done"
    /\ RunChunkCount = 3
    /\ Len(FetchedPages) = 3
    /\ run.inserted_items_count = RunChunkCount

RunRows == vdb[backend][RunCollection].rows

\* C12: after a run that returned the success signal and began on a
\* collection without rows (the first run after processing, or a run with
\* do_reset), the collection's row count equals the project's chunk count.
C12_IndexedRowsEqualChunkCount ==
    (run.pc = "done" /\ (run.rows_before = 0 \/ run.do_reset)) =>
        Len(RunRows) = RunChunkCount

\* Retrieval and answer claims are checked under SpecVdb.

AnswerBody(b) == ans.response[b].body

Answerable(b) ==
    /\ ans.op = "answer"
    /\ ans.limit >= 1
    /\ ans.embed = "ok"
    /\ vdb[b][VdbName].present
    /\ Len(vdb[b][VdbName].rows) >= ans.limit

\* C13: an answer request with limit >= 1 and an embedded query, on a
\* collection with at least limit rows, builds a full prompt with exactly
\* limit document fragments, numbered 1..limit in rank order, one per
\* retrieved document, followed by the footer.
C13_PromptHasLimitFragments ==
    \A b \in Backends :
        Answerable(b) =>
            LET documents == AnswerBody(b).full_prompt.documents
                rows == vdb[b][VdbName].rows
            IN  /\ AnswerBody(b).result = "tuple"
                /\ Len(documents) = ans.limit
                /\ \A i \in 1..Len(documents) :
                       documents[i] =
                           DocumentPrompt(i, ProcessPrompt(rows[i].text))
                /\ AnswerBody(b).full_prompt.footer = FooterPrompt(Query)

\* C13 witness: an answer request with limit 2 served from a collection of
\* three rows or more.
C13_Witness ==
    /\ Answerable("PGVECTOR")
    /\ ans.limit = 2
    /\ Len(vdb["PGVECTOR"][VdbName].rows) >= 3
    /\ ans.response["PGVECTOR"].signal = "RAG_ANSWER_SUCCESS"
    /\ Len(AnswerBody("PGVECTOR").full_prompt.documents) = 2

\* an answer request for which the retrieval yields no document: no query
\* vector, no collection, or no matching row
NothingRetrieved(b) ==
    /\ ans.op = "answer"
    /\ \/ ans.embed # "ok"
       \/ ~vdb[b][VdbName].present
       \/ Take(vdb[b][VdbName].rows, ans.limit) = <<>>

\* C14: when the retrieval yields no documents, answer() returns the "no
\* answer" sentinel and the request ends in the answer-failure signal,
\* never in an uncaught fault.
C14_NoDocumentsGivesAnswerError ==
    \A b \in Backends :
        NothingRetrieved(b) =>
            /\ AnswerBody(b).result = "None"
            /\ ans.response[b].signal = "RAG_ANSWER_ERROR"

\* C15: the chat_history returned by a successful answer request is exactly
\* one message, the system-role instruction; the user-role prompt turn is
\* not part of it.
C15_ReturnedHistoryIsSystemOnly ==
    \A b \in Backends :
        (ans.op = "answer"
            /\ ans.response[b].signal = "RAG_ANSWER_SUCCESS") =>
            AnswerBody(b).chat_history
                = <<ConstructPrompt(SystemPrompt, "system")>>

\* C16: search_by_vector on a collection that was never created returns the
\* "not found" outcome in every backend and does not raise, and the
\* retrieval layer answers a missing collection with the same "no results"
\* response as an existing collection without a match.
C16_SearchOnMissingCollection ==
    /\ (call.op = "search" /\ call.expected_before = "absent") =>
           \A b \in Backends : call.result[b] = "False"
    /\ (ans.op = "search" /\ ans.embed = "ok") =>
           \A b \in Backends :
               (~vdb[b][VdbName].present
                    \/ Take(vdb[b][VdbName].rows, ans.limit) = <<>>) =>
                   /\ ans.response[b].signal = "VECTORDB_SEARCH_ERROR"
                   /\ ans.response[b].body = Found("False", <<>>)

\* C17: insert_many called with len(vectors) # len(record_ids) returns
\* failure and inserts no row, in every backend.
C17_LengthMismatchIsRejected ==
    (call.op = "insert_many" /\ call.mismatch) =>
        \A b \in Backends :
            /\ call.result[b] = "False"
            /\ vdb[b][VdbName] = call.before[b]

\* Failure and frame claims of the requests are checked under Spec.

\* the embedding of the page in hand returned no vectors
EmbeddingFailed ==
    /\ run.log # <<>>
    /\ run.log[Len(run.log)][1] \in {"embed", "upsert"}
    /\ ~run.vectors.ok

\* C18: when the embedding provider returns no vectors for a page, the run
\* is aborted with the insert-failure signal: it fetches no further page,
\* upserts nothing for that page and does not end in an uncaught fault.
C18_EmbeddingFailureFailsRun ==
    (EmbeddingFailed /\ run.pc \notin {"ensure", "upsert"}) =>
        /\ run.pc = "failed"
        /\ run.signal = "INSERT_INTO_VECTORDB_ERROR"

\* the process request in hand names no asset of its project, or its
\* project has no file asset
FailsValidation(r) ==
    /\ r.pc # "idle"
    /\ IF r.file_id # FileIdNone
       THEN \A i \in 1..Len(assets) :
                ~(assets[i].asset_project_id = r.project_id
                    /\ assets[i].asset_name = r.file_id)
       ELSE \A i \in 1..Len(assets) :
                assets[i].asset_project_id # r.project_id

C19_FailureSignalled ==
    FailsValidation(proc) =>
        /\ proc.pc = "failed"
        /\ proc.signal \in {"FILE_ID_ERROR", "NO_FILES_ERROR"}

C19_NothingMutated ==
    FailsValidation(proc') => (chunks_tbl' = chunks_tbl /\ vdb' = vdb)

\* C19: a process request that fails validation (its file_id names no asset
\* of the project, or the project has no file assets) returns a failure
\* signal and changes neither the chunks nor the vector collections, also
\* with do_reset = 1.
C19_ValidationBeforeMutation ==
    /\ []C19_FailureSignalled
    /\ [][C19_NothingMutated]_vars

\* C19 witness: a request with do_reset = 1 for a project without files was
\* refused while chunks of another project and its collection are stored.
C19_Witness ==
    /\ FailsValidation(proc)
    /\ proc.do_reset = 1
    /\ proc.signal = "NO_FILES_ERROR"
    /\ chunks_tbl # <<>>
    /\ \E n \in CollectionNames : vdb[backend][n].present

\* the run ended without success while handling page k
FailedOnPage(k) ==
    /\ run.pc \in {"failed", "fault"}
    /\ run.page_no - 1 = k

\* rows in the collection when the first page of the run was upserted
RowsAtFirstPage == IF run.do_reset THEN 0 ELSE run.rows_before

C20_EarlierPagesStay ==
    \A k \in 2..MaxChunkId :
        (FailedOnPage(k) /\ run.insert_failures = 0) =>
            Len(RunRows) = RowsAtFirstPage + (k - 1) * page_size

\* once the loop over the pages has begun, no step removes or changes a row
\* of the collection
C20_RowsKept ==
    (run.pc \in {"fetch", "embed", "ensure", "upsert"}) =>
        /\ Len(vdb'[backend][RunCollection].rows) >= Len(RunRows)
        /\ \A i \in 1..Len(RunRows) :
               vdb'[backend][RunCollection].rows[i] = RunRows[i]

C20_ChunksUntouched ==
    (Active(run) \/ Active(run')) => chunks_tbl' = chunks_tbl

\* C20: when an indexing run fails on page k > 1, the rows upserted for
\* pages 1..k-1 stay in the collection, and no step of the run changes the
\* chunk store.
C20_PartialProgressKept ==
    /\ []C20_EarlierPagesStay
    /\ [][C20_RowsKept]_vars
    /\ [][C20_ChunksUntouched]_vars

\* C20 witness: a run on PGVECTOR that upserted its first page and ended
\* without success on the second.
C20_Witness ==
    /\ backend = "PGVECTOR"
    /\ FailedOnPage(2)
    /\ run.insert_failures = 0
    /\ Len(RunRows) >= page_size

\* Claims about the pages of the chunk store are checked under SpecPages.

\* the chunks of a project in table order, found without SelectProject
ProjectRowAt(tbl, project_id, k) ==
    LET P == {i \in 1..Len(tbl) : tbl[i].chunk_project_id = project_id}
        at == CHOOSE i \in P : Cardinality({j \in P : j <= i}) = k
    IN  tbl[at]

ProjectRowCount(project_id) ==
    Cardinality({i \in 1..Len(chunks_tbl) :
                   chunks_tbl[i].chunk_project_id = project_id})

\* rows a page holds when count rows match and off of them are skipped
PageLen(count, off) ==
    IF count - off >= page_size THEN page_size
    ELSE IF count - off > 0 THEN count - off
    ELSE 0

C21_EveryPage ==
    \A scan \in ScanOrders(chunks_tbl), p \in ProjectIds, n \in PageNumbers :
        LET page == GetProjectChunks(scan, p, n)
            off  == (n - 1) * page_size
        IN  /\ Len(page) <= page_size
            /\ \A i \in 1..Len(page) :
                   /\ page[i].chunk_project_id = p
                   /\ page[i] = ProjectRowAt(scan, p, off + i)
            /\ Len(page) = PageLen(ProjectRowCount(p), off)

C21_PageReturned ==
    run.pc = "paged" =>
        /\ Len(run.page_chunks) =
               PageLen(ProjectRowCount(run.project_id),
                       (run.page_no - 1) * page_size)
        /\ \A i \in 1..Len(run.page_chunks) :
               run.page_chunks[i].chunk_project_id = run.project_id

\* C21: get_project_chunks(project, page_no, page_size) returns the rows of
\* that project from offset (page_no - 1) * page_size of the scan on, at most
\* page_size of them and none of another project, and an empty page for
\* every page_no beyond the data.
C21_PageIsOffsetSlice == C21_EveryPage /\ C21_PageReturned

\* C21 witness: chunks of two projects are stored and a call returned the
\* empty page that follows a short last page.
C21_Witness ==
    /\ run.pc = "paged"
    /\ ProjectRowCount(run.project_id) > page_size
    /\ ProjectRowCount(run.project_id) < 2 * page_size
    /\ \E p \in ProjectIds : p # run.project_id /\ ProjectRowCount(p) > 0
    /\ run.page_no = 3
    /\ run.page_chunks = <<>>

\* Claims about collection names are checked under SpecName.

\* C22: the name of vector size 768 and project 7 is "Collection_768_7",
\* and a name is formed of one pair (vector size, project id) only: any pair
\* that differs in the size or in the project id has a different name.
C22_NameIsInjective ==
    call.op = "name" =>
        /\ (call.vector_size = 768 /\ call.project_id = 7) =>
               call.name = <<"C", "o", "l", "l", "e", "c", "t", "i", "o", "n",
                             "_", "7", "6", "8", "_", "7">>
        /\ \A vector_size \in NameNumbers, project_id \in NameNumbers :
               (FormatCollectionName(vector_size, project_id) = call.name)
                   <=> (/\ vector_size = call.vector_size
                        /\ project_id = call.project_id)

\* C22 witness: the name was formed for a pair whose digits, run together,
\* are those of another pair (76, 87 and 768, 7).
C22_Witness ==
    /\ call.op = "name"
    /\ call.vector_size = 76
    /\ call.project_id = 87
    /\ Str(call.vector_size) \o Str(call.project_id) = Str(768) \o Str(7)

\* Claims about the vector index are checked under SpecVdb.

PgCollection == vdb["PGVECTOR"][VdbName]

C23_IndexOnlyAtThreshold ==
    /\ PgCollection.has_index =>
           PgCollection.present /\ Len(PgCollection.rows) >= index_threshold
    /\ PgCollection.has_index <=> PgCollection.index_builds = 1

\* an insert into a collection that has its index builds none
C23_NotBuiltAgain ==
    (PgCollection.has_index /\ call'.op = "insert_many") =>
        /\ vdb'["PGVECTOR"][VdbName].has_index
        /\ vdb'["PGVECTOR"][VdbName].index_builds = PgCollection.index_builds

\* C23: on PGVECTOR a collection has a vector index only if it is present
\* with at least index_threshold rows, so none while its rows have stayed
\* below the threshold since it was created or reset; the index is built
\* once, and an insert into a collection that has it builds none.
C23_IndexBuiltLazily ==
    /\ []C23_IndexOnlyAtThreshold
    /\ [][C23_NotBuiltAgain]_vars

\* C23 witness: an insert added rows to a collection whose index was built
\* by an earlier insert.
C23_Witness ==
    /\ call.op = "insert_many"
    /\ call.before["PGVECTOR"].has_index
    /\ Len(PgCollection.rows) > Len(call.before["PGVECTOR"].rows)
    /\ PgCollection.index_builds = 1

\* C24: after every sequence of create, delete, insert_many and
\* search_by_vector calls made alike on both backends, QDRANT and PGVECTOR
\* have returned the same result for a create call, and the collection is
\* present in both or in neither, with the same number of rows.
C24_BackendsAgree ==
    /\ call.op = "create" => call.result["QDRANT"] = call.result["PGVECTOR"]
    /\ vdb["QDRANT"][VdbName].present = vdb["PGVECTOR"][VdbName].present
    /\ Len(vdb["QDRANT"][VdbName].rows) = Len(vdb["PGVECTOR"][VdbName].rows)

\* Claims about overlapping index requests are checked under SpecRace.

RaceRows == vdb[backend][CreateCollectionName(1)].rows

Other(who) == IF who = "run" THEN "rival" ELSE "run"

\* the collection holds a row for every chunk the request has upserted
HoldsUpserted(r, rows) == r.upserted \subseteq RowIds(rows)

\* C25: two index requests on one project interleave at their awaited calls
\* with no lock on the collection.  Rows a request has upserted leave the
\* collection only by the create call of the other request made with
\* do_reset, and that is reachable: a request returns the success signal
\* while the collection lacks rows of chunks it upserted.
C25_RowsLostOnlyToRivalReset ==
    [][\A who \in Runners :
          (/\ HoldsUpserted(Runner(who), RaceRows)
           /\ ~HoldsUpserted(Runner(who), vdb'[backend][CreateCollectionName(1)].rows))
          => (/\ Runner(Other(who)).pc = "create"
              /\ Runner(Other(who)).do_reset
              /\ (IF who = "run" THEN rival' ELSE run').pc = "fetch")]_vars

\* C25 witness: the request returned the success signal for a run without a
\* failed insert, and the collection lacks a row for a chunk it upserted.
C25_Witness ==
    /\ run.pc = "done"
    /\ run.signal = "INSERT_INTO_VECTORDB_SUCCESS"
    /\ run.insert_failures = 0
    /\ run.upserted = ChunkIds(chunks_tbl)
    /\ ~HoldsUpserted(run, RaceRows)

\* Claims about the generation provider are checked under SpecGen.

\* C26: after every sequence of generate_text calls, with a list of the
\* caller or with the default history, the caller's list is as it was passed
\* and the messages sent to the backend are the caller's history followed by
\* one user-role turn holding the prompt of this call.
C26_HistoryNotMutatedNorKept ==
    llm.op = "generate" =>
        /\ llm.kept = llm.passed
        /\ llm.messages
             = Append(llm.passed, ConstructPrompt(llm.prompt, "user"))

\* Claims about process and index requests served one at a time are
\* checked under Spec.

IsPrefix(a, b) == Len(a) <= Len(b) /\ SubSeq(b, 1, Len(a)) = a

\* the request passed validation and is past its reset block
PastReset ==
    \/ proc.pc \in {"files", "done"}
    \/ proc.pc = "failed" /\ proc.signal = "PROCESSING_FAILED"

\* the collection is deleted before the chunks, and after the reset block
\* the project's chunks are those this request inserted
C27_ResetThenOwnChunks ==
    /\ proc.pc = "delete_chunks" =>
           ~vdb[backend][CreateCollectionName(proc.project_id)].present
    /\ (PastReset /\ proc.do_reset = 1) =>
           GetChunksCountByProjectId(chunks_tbl, proc.project_id)
               = proc.no_records

\* a step of the request leaves the chunks of other projects alone, removes
\* chunks only in the reset block and otherwise appends to the table
C27_OthersKeptNewAppended ==
    Active(proc) =>
        /\ \A p \in ProjectIds \ {proc.project_id} :
               SelectProject(chunks_tbl', p) = SelectProject(chunks_tbl, p)
        /\ proc.pc # "delete_chunks" => IsPrefix(chunks_tbl, chunks_tbl')
        /\ proc.pc = "delete_chunks" => proc.do_reset = 1
        /\ proc.pc = "files" =>
               Len(chunks_tbl') - Len(chunks_tbl)
                   = proc'.no_records - proc.no_records

\* C27: a process request with do_reset=1 that passed validation deletes the
\* project's collection, then the project's chunks, and then inserts; after
\* that the project's chunks are exactly those of this request and the
\* chunks of other projects are unchanged.  Without do_reset the new chunks
\* are appended to the existing ones.
C27_ResetReplacesProjectChunks ==
    /\ []C27_ResetThenOwnChunks
    /\ [][C27_OthersKeptNewAppended]_vars

\* C27 witness: a request with do_reset=1 succeeded on a project that had
\* chunks, while another project has chunks too.
C27_Witness ==
    /\ proc.pc = "done"
    /\ proc.do_reset = 1
    /\ proc.no_records > 0
    /\ next_chunk_id - 1 > Len(chunks_tbl)
    /\ \E p \in ProjectIds \ {proc.project_id} :
           GetChunksCountByProjectId(chunks_tbl, p) > 0

\* C28: with process and index requests served one at a time, every
\* chunk_id stored in the collection of a project is, in every state, the id
\* of a chunk the chunk store holds for that project.
C28_RowsReferenceProjectChunks ==
    \A b \in Backends, p \in ProjectIds :
        RowIds(vdb[b][CreateCollectionName(p)].rows)
            \subseteq ChunkIds(SelectProject(chunks_tbl, p))

\* C28 witness: a process request ended on a project whose collection holds
\* rows of an earlier index request.
C28_Witness ==
    /\ proc.pc = "done"
    /\ proc.no_records > 0
    /\ vdb[backend][CreateCollectionName(proc.project_id)].rows # <<>>

C29_OneResetRowsKept ==
    /\ run.reset_calls <= 1
    /\ run.reset_calls = 1 => run.do_reset
    /\ run.pc # "idle" => HoldsUpserted(run, RunRows)

\* a create call with do_reset is made only before the first page
C29_ResetBeforeFirstPage ==
    run'.reset_calls > run.reset_calls =>
        /\ run.pc = "create"
        /\ run.upserted = {}
        /\ run.page_no = 1

\* C29: an index request resets the collection at most once, and only
\* before its first page: the create call made for every page passes
\* do_reset=False, so the rows upserted for earlier pages stay in the
\* collection whatever do_reset the request carried.
C29_ResetAtMostOncePerRun ==
    /\ []C29_OneResetRowsKept
    /\ [][C29_ResetBeforeFirstPage]_vars

\* C29 witness: a request with do_reset on a collection that held rows
\* upserted two pages and ended; the collection holds the rows of both.
C29_Witness ==
    /\ backend = "PGVECTOR"
    /\ run.pc = "done"
    /\ run.do_reset
    /\ run.rows_before > 0
    /\ run.reset_calls = 1
    /\ Len(FetchedPages) = 3
    /\ Cardinality(run.upserted) > page_size

\* the chunk ids of the rows, one entry per row
RowIdBag(rows) ==
    [id \in RowIds(rows) |->
        Cardinality({i \in 1..Len(rows) : rows[i].chunk_id = id})]

\* C30: the chunk set does not change during an index request, and after a
\* request with do_reset that returned the success signal with every page
\* accepted, the pages it fetched were disjoint and covered the project's
\* chunks: the collection holds exactly one row for every chunk id of the
\* project.
C30_EachChunkUpsertedOnce ==
    (/\ run.pc = "done"
     /\ run.do_reset
     /\ run.insert_failures = 0
     /\ run.inserted_items_count > 0) =>
        /\ run.upserted = ChunkIds(SelectProject(chunks_tbl, run.project_id))
        /\ \A id \in RowIds(RunRows) : RowIdBag(RunRows)[id] = 1

====
